---------------------------- MODULE Spec2Model ----------------------------
(***************************************************************************)
(* The bodies-bodies collision detector of nphysics                        *)
(* (src/src/detection/collision/bodies_bodies.rs): the dispatcher over     *)
(* body kinds, and the detector that bridges a broad phase (pair cache)    *)
(* and the narrow phase (per-pair contact state), subscribed to the        *)
(* activation signals.                                                     *)
(*                                                                         *)
(* Transforms are positions on a line, 0..MaxPos.  A rigid body's shape    *)
(* is a unit ball, its fat bounding box one unit larger.  Two shapes at    *)
(* distance 0 touch in two contact points, at distance 1 in one, further   *)
(* apart in none.                                                          *)
(*                                                                         *)
(* Spec runs the detector with any caller, SpecDispatch the dispatcher on  *)
(* its own, SpecWorld the pipeline that examples/primitives3d.rs builds.   *)
(***************************************************************************)
EXTENDS Integers, Sequences, FiniteSets

NBodies == 4
MaxPos  == 3

Body == 1..NBodies
Pos  == 0..MaxPos

VARIABLES
    body,        \* the world's objects: handle -> Body value (RB or SB)
    pos,         \* handle -> the body's current transform
    constructed, \* BodiesBodies::new has run
    update_bf,   \* BodiesBodies.update_bf
    activated,   \* signal bus: the body_activated handler list
    deactivated, \* signal bus: the body_deactivated handler list
    tree,        \* broad phase: the bodies it holds
    asleep,      \* broad phase: the bodies it was told are deactivated
    pairs,       \* broad phase: the pair cache, pair -> PairwiseDetector
    op,          \* the last operation and its arguments
    calls,       \* the calls the last operation made on its collaborators
    outPre,      \* the output list handed to the last operation
    out,         \* the output list when the last operation returned
    failed,      \* the task has failed (fail!)
    moved,       \* a body has moved since the last update(), or none was made
    world        \* the World and the demo that builds it (see WorldNew)

vars == <<body, pos, constructed, update_bf, activated, deactivated, tree,
          asleep, pairs, op, calls, outPre, out, failed, moved, world>>

Abs(x) == IF x < 0 THEN -x ELSE x

\* The number of calls of a call list equal to c.
Count(cs, c) == Cardinality({i \in DOMAIN cs : cs[i] = c})

\* The number of calls of a call list to the function f.
CountTo(cs, f) == Cardinality({i \in DOMAIN cs : cs[i][1] = f})


(***************************************************************************)
(* Body values and pairwise detectors.                                     *)
(***************************************************************************)
RB(m) == [tag |-> "RB", can_move |-> m]
SB(m) == [tag |-> "SB", can_move |-> m]
BodyValue == {RB(TRUE), RB(FALSE), SB(TRUE), SB(FALSE)}

\* enum PairwiseDetector { GG(GeomGeom), Unsuported }.  A GeomGeom holds the
\* transforms it was last updated with (-1: never updated).
GG(ta, tb) == [tag |-> "GG", ta |-> ta, tb |-> tb]
Unsuported == [tag |-> "Unsuported", ta |-> -1, tb |-> -1]
GeomGeomNew == GG(-1, -1)

\* borrow::ref_eq: two references are equal when they are the same handle.
ref_eq(a, b) == a = b

\* dispatch with the match arm taken as soon as the first body is rigid.
dispatch_first_rigid(a, b) ==
    IF body[a].tag = "RB"
    THEN GeomGeomNew
    ELSE Unsuported

\* Dispatcher::dispatch
dispatch(a, b) ==
    IF body[a].tag = "RB" /\ body[b].tag = "RB"
    THEN GeomGeomNew
    ELSE Unsuported

\* is_valid asking both rigid bodies to be able to move.
is_valid_both_move(a, b) ==
    IF ref_eq(a, b)
    THEN FALSE
    ELSE IF body[a].tag = "RB" /\ body[b].tag = "RB"
         THEN body[a].can_move /\ body[b].can_move
         ELSE TRUE

\* is_valid without the ref_eq test.
is_valid_no_ref_eq(a, b) ==
    IF body[a].tag = "RB" /\ body[b].tag = "RB"
    THEN body[a].can_move \/ body[b].can_move
    ELSE TRUE

\* Dispatcher::is_valid
is_valid(a, b) ==
    IF ref_eq(a, b)
    THEN FALSE
    ELSE IF body[a].tag = "RB" /\ body[b].tag = "RB"
         THEN body[a].can_move \/ body[b].can_move
         ELSE TRUE

(***************************************************************************)
(* The narrow phase (ncollide GeomGeom), as the detector uses it.          *)
(***************************************************************************)
\* d.update(transform_a, geom_a, transform_b, geom_b)
GeomGeomUpdate(d, ta, tb) == GG(ta, tb)

\* d.colls(&mut collector): the contacts found by the last update, appended
\* to the collector; the detector's own state is left as it is.
Colls(d) ==
    IF d.tag # "GG" \/ d.ta = -1 THEN <<>>
    ELSE IF Abs(d.ta - d.tb) = 0 THEN << <<d.ta, d.tb, 1>>, <<d.ta, d.tb, 2>> >>
    ELSE IF Abs(d.ta - d.tb) = 1 THEN << <<d.ta, d.tb, 1>> >>
    ELSE <<>>

\* geom.toi_with_transform_and_ray(transform, ray): the ray crosses the line
\* at x, coming from five units away; -1 is None.
Toi(b, x) == IF Abs(pos[b] - x) <= 1 THEN 4 + Abs(pos[b] - x) ELSE -1

(***************************************************************************)
(* The broad phase (ncollide DBVT broad phase), as spec section 4.3        *)
(* describes it.                                                           *)
(***************************************************************************)
\* The fat bounding boxes of a and b overlap.
Overlap(a, b) == Abs(pos[a] - pos[b]) <= 2

KeyLess(k, l) == k[1] < l[1] \/ (k[1] = l[1] /\ k[2] < l[2])

RECURSIVE KeySeq(_)
\* The pairs of a pair cache in the order the broad phase visits them.
KeySeq(S) ==
    IF S = {} THEN <<>>
    ELSE LET m == CHOOSE k \in S : \A l \in S \ {k} : KeyLess(k, l)
         IN  <<m>> \o KeySeq(S \ {m})

\* The key of the pair cache: the unordered pair of two handles, written with
\* the smaller handle first.
PairKey(a, b) == IF a <= b THEN <<a, b>> ELSE <<b, a>>

\* broad_phase.update(): the candidate pairs are the overlapping leaves of the
\* tree, met in either order (a leaf overlaps itself); the dispatcher's
\* is_valid filters them, and the ones it accepts enter the cache under their
\* unordered key; a pair already in the cache keeps its detector, a new one
\* gets dispatch(a, b).
BfUpdate(t, p) ==
    LET cand == {k \in t \X t : Overlap(k[1], k[2])}
        keep == {PairKey(k[1], k[2]) : k \in {l \in cand : is_valid(l[1], l[2])}}
    IN  [k \in keep |-> IF k \in DOMAIN p THEN p[k] ELSE dispatch(k[1], k[2])]

\* broad_phase.remove(o): the pairs of o leave the cache with it.
BfRemovePairs(p, o) ==
    [k \in {l \in DOMAIN p : l[1] # o /\ l[2] # o} |-> p[k]]

\* broad_phase.activate(body, f): the pairs f is called with.
BfActivatePairs(p, b) == KeySeq({k \in DOMAIN p : k[1] = b \/ k[2] = b})

RECURSIVE RaySeq(_, _)
\* broad_phase.interferences_with_ray(ray, &mut bodies): the leaves whose fat
\* bounding box the ray hits.
RaySeq(S, x) ==
    IF S = {} THEN <<>>
    ELSE LET m == CHOOSE b \in S : \A c \in S : b <= c
         IN  (IF Abs(pos[m] - x) <= 2 THEN <<m>> ELSE <<>>) \o RaySeq(S \ {m}, x)

(***************************************************************************)
(* The detector: BodiesBodies.                                             *)
(***************************************************************************)
\* Constraint::RBRB(b1, b2, contact)
RBRB(b1, b2, c) == <<"RBRB", b1, b2, c>>

\* A constraint another detector (the joint manager) left in the output list.
Joint == <<"BallInSocket", 0, 0, <<>>>>

\* The output lists an operation may be handed.
OutPres == {<<>>, <<Joint>>}

\* for c in collector.iter() { out.push(RBRB(b1, b2, c.clone())) }
PushAll(k, collector) ==
    [i \in 1..Len(collector) |-> RBRB(k[1], k[2], collector[i])]

\* to_rigid_body_or_fail on both bodies of a pair
BothRigid(k) == body[k[1]].tag = "RB" /\ body[k[2]].tag = "RB"

\* The closure of update() updating only the detectors never updated before.
UpdateVisitFreshOnly(k, cd) ==
    IF cd.tag = "GG" /\ cd.ta = -1
    THEN [cd    |-> GeomGeomUpdate(cd, pos[k[1]], pos[k[2]]),
          calls |-> << <<"d.update", k[1], k[2], pos[k[1]], pos[k[2]]>> >>,
          fail  |-> FALSE]
    ELSE [cd |-> cd, calls |-> <<>>, fail |-> FALSE]

\* The closure of update() failing on an unsupported pair, as
\* interferences_with_ray does on a soft body.
UpdateVisitFailUnsupported(k, cd) ==
    IF cd.tag = "GG"
    THEN [cd    |-> GeomGeomUpdate(cd, pos[k[1]], pos[k[2]]),
          calls |-> << <<"d.update", k[1], k[2], pos[k[1]], pos[k[2]]>> >>,
          fail  |-> FALSE]
    ELSE [cd |-> cd, calls |-> <<>>, fail |-> TRUE]

\* The closure of update() for one pair (the match on *cd).
UpdateVisit(k, cd) ==
    IF cd.tag = "GG"
    THEN IF BothRigid(k)
         THEN [cd    |-> GeomGeomUpdate(cd, pos[k[1]], pos[k[2]]),
               calls |-> << <<"d.update", k[1], k[2], pos[k[1]], pos[k[2]]>> >>,
               fail  |-> FALSE]
         ELSE [cd |-> cd, calls |-> <<>>, fail |-> TRUE]
    ELSE [cd |-> cd, calls |-> <<>>, fail |-> FALSE]

RECURSIVE UpdateEach(_, _)
\* broad_phase.for_each_pair_mut with the closure of update()
UpdateEach(ks, p) ==
    IF ks = <<>> THEN [pairs |-> p, calls |-> <<>>, fail |-> FALSE]
    ELSE LET k == Head(ks)
             v == UpdateVisit(k, p[k])
         IN  IF v.fail
             THEN [pairs |-> p, calls |-> v.calls, fail |-> TRUE]
             ELSE LET rest == UpdateEach(Tail(ks), [p EXCEPT ![k] = v.cd])
                  IN  [pairs |-> rest.pairs,
                       calls |-> v.calls \o rest.calls,
                       fail  |-> rest.fail]

\* The closure of interferences() without its collector.clear(): the contacts
\* of a pair stay in the scratch collector when the next pair is visited.
InterferencesVisitNoClear(k, cd, collector) ==
    IF cd.tag = "GG"
    THEN LET filled == collector \o Colls(cd)
         IN  [calls     |-> << <<"d.colls", k[1], k[2]>> >>,
              out       |-> PushAll(k, filled),
              collector |-> filled]
    ELSE [calls |-> <<>>, out |-> <<>>, collector |-> collector]

\* The closure of interferences() for one pair, given the scratch collector.
InterferencesVisit(k, cd, collector) ==
    IF cd.tag = "GG"
    THEN LET filled == collector \o Colls(cd)
         IN  [calls     |-> << <<"d.colls", k[1], k[2]>> >>,
              out       |-> PushAll(k, filled),
              collector |-> <<>>]
    ELSE [calls |-> <<>>, out |-> <<>>, collector |-> collector]

RECURSIVE InterferencesEach(_, _, _)
\* broad_phase.for_each_pair_mut with the closure of interferences()
InterferencesEach(ks, p, collector) ==
    IF ks = <<>> THEN [calls |-> <<>>, out |-> <<>>]
    ELSE LET k    == Head(ks)
             v    == InterferencesVisit(k, p[k], collector)
             rest == InterferencesEach(Tail(ks), p, v.collector)
         IN  [calls |-> v.calls \o rest.calls, out |-> v.out \o rest.out]

\* The closure of activate() pushing the first contact of the collector only.
ActivateVisitFirstContact(k, cd, collector) ==
    IF cd.tag = "GG"
    THEN LET d      == GeomGeomUpdate(cd, pos[k[1]], pos[k[2]])
             filled == collector \o Colls(d)
         IN  [cd        |-> d,
              calls     |-> << <<"d.update", k[1], k[2], pos[k[1]], pos[k[2]]>>,
                               <<"d.colls", k[1], k[2]>> >>,
              out       |-> PushAll(k, SubSeq(filled, 1, 1)),
              collector |-> <<>>,
              fail      |-> FALSE]
    ELSE [cd |-> cd, calls |-> <<>>, out |-> <<>>,
          collector |-> collector, fail |-> FALSE]

\* The closure of activate() without the update its FIXME asks about: the
\* contacts are read from the narrow-phase state as it is.
ActivateVisitNoUpdate(k, cd, collector) ==
    IF cd.tag = "GG"
    THEN LET filled == collector \o Colls(cd)
         IN  [cd        |-> cd,
              calls     |-> << <<"d.colls", k[1], k[2]>> >>,
              out       |-> PushAll(k, filled),
              collector |-> <<>>,
              fail      |-> FALSE]
    ELSE [cd |-> cd, calls |-> <<>>, out |-> <<>>,
          collector |-> collector, fail |-> FALSE]

\* The closure of activate() for one re-emitted pair.
ActivateVisit(k, cd, collector) ==
    IF cd.tag = "GG"
    THEN IF BothRigid(k)
         THEN LET d      == GeomGeomUpdate(cd, pos[k[1]], pos[k[2]])
                  filled == collector \o Colls(d)
              IN  [cd        |-> d,
                   calls     |-> << <<"d.update", k[1], k[2], pos[k[1]], pos[k[2]]>>,
                                    <<"d.colls", k[1], k[2]>> >>,
                   out       |-> PushAll(k, filled),
                   collector |-> <<>>,
                   fail      |-> FALSE]
         ELSE [cd |-> cd, calls |-> <<>>, out |-> <<>>,
               collector |-> collector, fail |-> TRUE]
    ELSE [cd |-> cd, calls |-> <<>>, out |-> <<>>,
          collector |-> collector, fail |-> FALSE]

RECURSIVE ActivateEach(_, _, _)
\* broad_phase.activate(body) calling the closure of activate() on each pair
ActivateEach(ks, p, collector) ==
    IF ks = <<>> THEN [pairs |-> p, calls |-> <<>>, out |-> <<>>, fail |-> FALSE]
    ELSE LET k == Head(ks)
             v == ActivateVisit(k, p[k], collector)
         IN  IF v.fail
             THEN [pairs |-> p, calls |-> v.calls, out |-> v.out, fail |-> TRUE]
             ELSE LET rest == ActivateEach(Tail(ks), [p EXCEPT ![k] = v.cd],
                                           v.collector)
                  IN  [pairs |-> rest.pairs,
                       calls |-> v.calls \o rest.calls,
                       out   |-> v.out \o rest.out,
                       fail  |-> rest.fail]

\* BodiesBodies::activate(body, out)
activate(b, p) ==
    LET r == ActivateEach(BfActivatePairs(p, b), p, <<>>)
    IN  [pairs |-> r.pairs,
         calls |-> << <<"bf.activate", b>> >> \o r.calls,
         out   |-> r.out,
         fail  |-> r.fail]

\* deactivate(body) calling the broad phase only with update_bf.
deactivate_gated(b) == IF update_bf THEN << <<"bf.deactivate", b>> >> ELSE <<>>

\* BodiesBodies::deactivate(body)
deactivate(b) == << <<"bf.deactivate", b>> >>

\* The match of interferences_with_ray on one body the broad phase returned.
RayVisit(b, x) ==
    IF body[b].tag = "RB"
    THEN [out  |-> IF Toi(b, x) = -1 THEN <<>> ELSE << <<b, Toi(b, x)>> >>,
          fail |-> FALSE]
    ELSE [out |-> <<>>, fail |-> TRUE]

RECURSIVE RayEach(_, _)
\* for b in bodies.iter() of interferences_with_ray
RayEach(bs, x) ==
    IF bs = <<>> THEN [out |-> <<>>, fail |-> FALSE]
    ELSE LET v == RayVisit(Head(bs), x)
         IN  IF v.fail THEN v
             ELSE LET rest == RayEach(Tail(bs), x)
                  IN  [out |-> v.out \o rest.out, fail |-> rest.fail]

(***************************************************************************)
(* The signal bus (SignalEmiter), as spec section 4.4 describes it: each   *)
(* channel is a list of (subscriber id, callback), called in registration  *)
(* order.                                                                  *)
(***************************************************************************)
Handler(id, f) == [id |-> id, f |-> f]

RECURSIVE EmitActivatedEach(_, _, _)
\* body_activated is emitted for b: every handler is called with (b, out).
EmitActivatedEach(hs, b, p) ==
    IF hs = <<>> THEN [pairs |-> p, calls |-> <<>>, out |-> <<>>, fail |-> FALSE]
    ELSE LET r == IF Head(hs).f = "activate"
                  THEN activate(b, p)
                  ELSE [pairs |-> p, calls |-> <<>>, out |-> <<>>, fail |-> FALSE]
         IN  IF r.fail THEN r
             ELSE LET rest == EmitActivatedEach(Tail(hs), b, r.pairs)
                  IN  [pairs |-> rest.pairs,
                       calls |-> r.calls \o rest.calls,
                       out   |-> r.out \o rest.out,
                       fail  |-> rest.fail]

RECURSIVE EmitDeactivatedEach(_, _)
\* body_deactivated is emitted for b: every handler is called with b.
EmitDeactivatedEach(hs, b) ==
    IF hs = <<>> THEN <<>>
    ELSE (IF Head(hs).f = "deactivate" THEN deactivate(b) ELSE <<>>)
         \o EmitDeactivatedEach(Tail(hs), b)

\* The effect of the broad-phase activate / deactivate calls of a call list on
\* the set of sleeping bodies.
RECURSIVE SleepAfter(_, _)
SleepAfter(cs, sl) ==
    IF cs = <<>> THEN sl
    ELSE SleepAfter(Tail(cs),
                    IF Head(cs)[1] = "bf.activate" THEN sl \ {Head(cs)[2]}
                    ELSE IF Head(cs)[1] = "bf.deactivate" THEN sl \cup {Head(cs)[2]}
                    ELSE sl)

(***************************************************************************)
(* The world of the model: one dynamic rigid body (a box), a soft body,    *)
(* static rigid bodies (planes), and further soft and static bodies.       *)
(***************************************************************************)
WorldBody(b) ==
    IF b = 1 THEN RB(TRUE)
    ELSE IF b % 3 = 2 THEN SB(TRUE)
    ELSE RB(FALSE)

InitPos(b) == (2 * b) % (MaxPos + 1)

(***************************************************************************)
(* The World orchestrator, as spec section 4.5 describes it, and the demo  *)
(* that builds it (primitives3d.rs).                                       *)
(***************************************************************************)
\* A priority that sorts the detector after the island manager.
priority_after_island == 75 + 5

\* BodiesBodies::priority
priority == 50

\* The priority of each stage of the shipped pipeline, under the name the
\* demo gives it.
Priority(c) ==
    CASE c = "forces"     -> 0
      [] c = "integrator" -> 10
      [] c = "ccd"        -> 20
      [] c = "detector"   -> priority
      [] c = "joints"     -> 50
      [] c = "sleep"      -> 75
      [] c = "solver"     -> 100

\* The registrations of the demo, in the order it makes them.
Registrations ==
    << <<"add_integrator", "forces">>,
       <<"add_integrator", "integrator">>,
       <<"add_integrator", "ccd">>,
       <<"add_detector", "detector">>,
       <<"add_detector", "joints">>,
       <<"add_detector", "sleep">>,
       <<"add_solver", "solver">> >>

\* A collection of the World with c added: priority is a stable sort key,
\* lower first, ties in registration order.
SortedInsert(cs, c) ==
    LET n == Cardinality({i \in DOMAIN cs : Priority(cs[i]) <= Priority(c)})
    IN  SubSeq(cs, 1, n) \o <<c>> \o SubSeq(cs, n + 1, Len(cs))

\* World::new, before the demo has built anything: line counts the
\* construction and registration steps of the demo done so far, plan holds
\* the calls the running World operation has still to make, ran the ones it
\* has made, vel the bodies' velocities.
WorldNew ==
    [line        |-> 0,
     integrators |-> <<>>,
     detectors   |-> <<>>,
     solvers     |-> <<>>,
     objects     |-> {},
     plan        |-> <<>>,
     ran         |-> <<>>,
     vel         |-> [b \in Body |-> 0]]

Init ==
    /\ body = [b \in Body |-> WorldBody(b)]
    /\ pos = [b \in Body |-> InitPos(b)]
    /\ constructed = FALSE
    /\ update_bf = FALSE
    /\ activated = <<>>
    /\ deactivated = <<>>
    /\ tree = {}
    /\ asleep = {}
    /\ pairs = <<>>
    /\ op = <<"init">>
    /\ calls = <<>>
    /\ outPre = <<>>
    /\ out = <<>>
    /\ failed = FALSE
    /\ moved = TRUE
    /\ world = WorldNew

\* BodiesBodies::new(events, bf, update_bf)
new(ub) ==
    /\ ~constructed
    /\ constructed' = TRUE
    /\ update_bf' = ub
    /\ activated' = Append(activated, Handler("BodiesBodies", "activate"))
    /\ deactivated' = Append(deactivated, Handler("BodiesBodies", "deactivate"))
    /\ op' = <<"new", ub>>
    /\ calls' = <<>> /\ outPre' = <<>> /\ out' = <<>>
    /\ UNCHANGED <<body, pos, tree, asleep, pairs, failed, moved>>

\* add(o) calling the broad phase whatever update_bf is.
AddUngated(o) ==
    /\ constructed /\ ~failed
    /\ tree' = tree \cup {o}
    /\ calls' = << <<"bf.add", o>> >>
    /\ op' = <<"add", o>>
    /\ outPre' = <<>> /\ out' = <<>>
    /\ UNCHANGED <<body, pos, constructed, update_bf, activated, deactivated,
                   asleep, pairs, failed, moved>>

\* Detector::add(o)
add(o) ==
    /\ constructed /\ ~failed
    /\ update_bf => o \notin tree
    /\ tree' = IF update_bf THEN tree \cup {o} ELSE tree
    /\ calls' = IF update_bf THEN << <<"bf.add", o>> >> ELSE <<>>
    /\ op' = <<"add", o>>
    /\ outPre' = <<>> /\ out' = <<>>
    /\ UNCHANGED <<body, pos, constructed, update_bf, activated, deactivated,
                   asleep, pairs, failed, moved>>

\* Detector::remove(o)
remove(o) ==
    /\ constructed /\ ~failed
    /\ update_bf => o \in tree
    /\ tree' = IF update_bf THEN tree \ {o} ELSE tree
    /\ pairs' = IF update_bf THEN BfRemovePairs(pairs, o) ELSE pairs
    /\ asleep' = IF update_bf THEN asleep \ {o} ELSE asleep
    /\ calls' = IF update_bf THEN << <<"bf.remove", o>> >> ELSE <<>>
    /\ op' = <<"remove", o>>
    /\ outPre' = <<>> /\ out' = <<>>
    /\ UNCHANGED <<body, pos, constructed, update_bf, activated, deactivated,
                   failed, moved>>

\* update() writing a pose: the first body of a pair whose two bodies share
\* their position is pushed off it.
UpdateCorrectingPoses ==
    /\ constructed /\ ~failed
    /\ LET p1 == IF update_bf THEN BfUpdate(tree, pairs) ELSE pairs
           r  == UpdateEach(KeySeq(DOMAIN p1), p1)
       IN  /\ pairs' = r.pairs
           /\ calls' = (IF update_bf THEN << <<"bf.update">> >> ELSE <<>>)
                       \o << <<"bf.for_each_pair_mut">> >> \o r.calls
           /\ failed' = r.fail
           /\ pos' = [b \in Body |->
                        IF /\ \E k \in DOMAIN p1 :
                                k[1] = b /\ k[2] # b /\ pos[k[2]] = pos[b]
                           /\ pos[b] + 1 \in Pos
                        THEN pos[b] + 1 ELSE pos[b]]
    /\ op' = <<"update">>
    /\ outPre' = <<>> /\ out' = <<>>
    /\ moved' = FALSE
    /\ UNCHANGED <<body, constructed, update_bf, activated, deactivated,
                   tree, asleep>>

\* Detector::update()
update ==
    /\ constructed /\ ~failed
    /\ LET p1 == IF update_bf THEN BfUpdate(tree, pairs) ELSE pairs
           r  == UpdateEach(KeySeq(DOMAIN p1), p1)
       IN  /\ pairs' = r.pairs
           /\ calls' = (IF update_bf THEN << <<"bf.update">> >> ELSE <<>>)
                       \o << <<"bf.for_each_pair_mut">> >> \o r.calls
           /\ failed' = r.fail
    /\ op' = <<"update">>
    /\ outPre' = <<>> /\ out' = <<>>
    /\ moved' = FALSE
    /\ UNCHANGED <<body, pos, constructed, update_bf, activated, deactivated,
                   tree, asleep>>

\* interferences(out) taking the contacts out of the narrow-phase state.
InterferencesDraining(pre) ==
    /\ constructed /\ ~failed
    /\ LET r == InterferencesEach(KeySeq(DOMAIN pairs), pairs, <<>>)
       IN  /\ calls' = << <<"bf.for_each_pair_mut">> >> \o r.calls
           /\ out' = pre \o r.out
    /\ pairs' = [k \in DOMAIN pairs |->
                   IF pairs[k].tag = "GG" THEN GeomGeomNew ELSE pairs[k]]
    /\ outPre' = pre
    /\ op' = <<"interferences", IF op[1] = "interferences" THEN 2 ELSE 1>>
    /\ UNCHANGED <<body, pos, constructed, update_bf, activated, deactivated,
                   tree, asleep, failed, moved>>

\* interferences(out) emptying the list it is handed before filling it.
InterferencesOverwriting(pre) ==
    /\ constructed /\ ~failed
    /\ LET r == InterferencesEach(KeySeq(DOMAIN pairs), pairs, <<>>)
       IN  /\ calls' = << <<"bf.for_each_pair_mut">> >> \o r.calls
           /\ out' = r.out
    /\ outPre' = pre
    /\ op' = <<"interferences", IF op[1] = "interferences" THEN 2 ELSE 1>>
    /\ UNCHANGED <<body, pos, constructed, update_bf, activated, deactivated,
                   tree, asleep, pairs, failed, moved>>

\* Detector::interferences(out).  op records whether the call is the first
\* one (1) or a later one (2) since the last other operation.
interferences(pre) ==
    /\ constructed /\ ~failed
    /\ LET r == InterferencesEach(KeySeq(DOMAIN pairs), pairs, <<>>)
       IN  /\ calls' = << <<"bf.for_each_pair_mut">> >> \o r.calls
           /\ out' = pre \o r.out
    /\ outPre' = pre
    /\ op' = <<"interferences", IF op[1] = "interferences" THEN 2 ELSE 1>>
    /\ UNCHANGED <<body, pos, constructed, update_bf, activated, deactivated,
                   tree, asleep, pairs, failed, moved>>

\* The island manager puts to sleep, and wakes, the dynamic rigid bodies
\* (spec section 4.9).
Sleeps(b) == body[b].tag = "RB" /\ body[b].can_move

\* The signal bus emits body_activated for b.
EmitBodyActivated(b, pre) ==
    /\ constructed /\ ~failed
    /\ b \in tree /\ Sleeps(b)
    /\ LET r == EmitActivatedEach(activated, b, pairs)
       IN  /\ pairs' = r.pairs
           /\ calls' = r.calls
           /\ out' = pre \o r.out
           /\ failed' = r.fail
           /\ asleep' = SleepAfter(r.calls, asleep)
    /\ outPre' = pre
    /\ op' = <<"body_activated", b>>
    /\ UNCHANGED <<body, pos, constructed, update_bf, activated, deactivated,
                   tree, moved>>

\* The signal bus emits body_deactivated for b.
EmitBodyDeactivated(b) ==
    /\ constructed /\ ~failed
    /\ b \in tree /\ Sleeps(b)
    /\ LET cs == EmitDeactivatedEach(deactivated, b)
       IN  /\ calls' = cs
           /\ asleep' = SleepAfter(cs, asleep)
    /\ op' = <<"body_deactivated", b>>
    /\ outPre' = <<>> /\ out' = <<>>
    /\ UNCHANGED <<body, pos, constructed, update_bf, activated, deactivated,
                   tree, pairs, failed, moved>>

\* BodiesBodies::interferences_with_ray(ray, out)
interferences_with_ray(x, pre) ==
    /\ constructed /\ ~failed
    /\ LET r == RayEach(RaySeq(tree, x), x)
       IN  /\ out' = pre \o r.out
           /\ failed' = r.fail
    /\ calls' = << <<"bf.interferences_with_ray", x>> >>
    /\ outPre' = pre
    /\ op' = <<"interferences_with_ray", x>>
    /\ UNCHANGED <<body, pos, constructed, update_bf, activated, deactivated,
                   tree, asleep, pairs, moved>>

(***************************************************************************)
(* The rest of the pipeline: the integrators move the bodies that can      *)
(* move, and when the detector was created with update_bf = false the      *)
(* subsystem sharing the broad phase (the CCD integrator) maintains it.    *)
(***************************************************************************)
Move(b, d) ==
    /\ constructed /\ ~failed
    /\ body[b].tag = "RB" /\ body[b].can_move
    /\ pos[b] + d \in Pos
    /\ pos' = [pos EXCEPT ![b] = pos[b] + d]
    /\ op' = <<"move", b>>
    /\ calls' = <<>> /\ outPre' = <<>> /\ out' = <<>>
    /\ moved' = TRUE
    /\ UNCHANGED <<body, constructed, update_bf, activated, deactivated, tree,
                   asleep, pairs, failed>>

OtherAdd(o) ==
    /\ constructed /\ ~failed /\ ~update_bf
    /\ o \notin tree
    /\ tree' = tree \cup {o}
    /\ op' = <<"other.add", o>>
    /\ calls' = <<>> /\ outPre' = <<>> /\ out' = <<>>
    /\ UNCHANGED <<body, pos, constructed, update_bf, activated, deactivated,
                   asleep, pairs, failed, moved>>

OtherRemove(o) ==
    /\ constructed /\ ~failed /\ ~update_bf
    /\ o \in tree
    /\ tree' = tree \ {o}
    /\ pairs' = BfRemovePairs(pairs, o)
    /\ asleep' = asleep \ {o}
    /\ op' = <<"other.remove", o>>
    /\ calls' = <<>> /\ outPre' = <<>> /\ out' = <<>>
    /\ UNCHANGED <<body, pos, constructed, update_bf, activated, deactivated,
                   failed, moved>>

OtherUpdate ==
    /\ constructed /\ ~failed /\ ~update_bf
    /\ pairs' = BfUpdate(tree, pairs)
    /\ op' = <<"other.update">>
    /\ calls' = <<>> /\ outPre' = <<>> /\ out' = <<>>
    /\ UNCHANGED <<body, pos, constructed, update_bf, activated, deactivated,
                   tree, asleep, failed, moved>>

Next ==
    \/ \E ub \in BOOLEAN : new(ub) /\ UNCHANGED world
    \/ \E o \in Body : add(o) /\ UNCHANGED world
    \/ \E o \in Body : remove(o) /\ UNCHANGED world
    \/ update /\ UNCHANGED world
    \/ \E pre \in OutPres : interferences(pre) /\ UNCHANGED world
    \/ \E b \in Body, pre \in OutPres :
          EmitBodyActivated(b, pre) /\ UNCHANGED world
    \/ \E b \in Body : EmitBodyDeactivated(b) /\ UNCHANGED world
    \/ \E x \in Pos, pre \in OutPres :
          interferences_with_ray(x, pre) /\ UNCHANGED world
    \/ \E b \in Body, d \in {-1, 1} : Move(b, d) /\ UNCHANGED world
    \/ \E o \in Body : OtherAdd(o) /\ UNCHANGED world
    \/ \E o \in Body : OtherRemove(o) /\ UNCHANGED world
    \/ OtherUpdate /\ UNCHANGED world

Spec == Init /\ [][Next]_vars

(***************************************************************************)
(* The demo: primitives3d.rs builds the pipeline, then bodies are added to *)
(* and removed from the World, the World steps, and the user wakes bodies  *)
(* and casts rays between two operations of the World.  A World operation  *)
(* makes the calls of its plan one after the other.                        *)
(***************************************************************************)
\* Every variable but world.
dvars == <<body, pos, constructed, update_bf, activated, deactivated, tree,
           asleep, pairs, op, calls, outPre, out, failed, moved>>

Last(q) == q[Len(q)]

\* A call record: the component, the method, its argument, and the number of
\* broad_phase.add calls it made.
Call(c, f, o, n) == <<c, f, o, n>>

\* The World after the running operation has made the call e.
Ran(e) == [world EXCEPT !.plan = Tail(@), !.ran = Append(@, e)]

\* The next call of the running operation is c.f.
Stage(c, f) ==
    /\ ~failed
    /\ world.plan # <<>>
    /\ Head(world.plan)[1] = c /\ Head(world.plan)[2] = f

\* The calls c.f(o) for the components c of cs, in their order.
ForEach(cs, f, o) == [i \in DOMAIN cs |-> Call(cs[i], f, o, 0)]

\* Step 2 of World::step: for each detector, update() then interferences(out).
DetectorsPlan(ds) ==
    [i \in 1..(2 * Len(ds)) |->
        Call(ds[(i + 1) \div 2],
             IF i % 2 = 1 THEN "update" ELSE "interferences", 0, 0)]

\* let detector = BodiesBodies::new(events, broad_phase, false)
DemoNewDetector ==
    /\ world.line = 0
    /\ new(FALSE)
    /\ world' = [world EXCEPT !.line = 1,
                              !.ran = Append(@, Call("detector", "new", 0, 0))]

\* world.add_integrator(..), world.add_detector(..), world.add_solver(..)
DemoRegister ==
    /\ world.line \in DOMAIN Registrations
    /\ LET r == Registrations[world.line]
       IN  world' = [world EXCEPT
                !.line = @ + 1,
                !.integrators =
                    IF r[1] = "add_integrator" THEN SortedInsert(@, r[2]) ELSE @,
                !.detectors =
                    IF r[1] = "add_detector" THEN SortedInsert(@, r[2]) ELSE @,
                !.solvers =
                    IF r[1] = "add_solver" THEN SortedInsert(@, r[2]) ELSE @,
                !.ran = Append(@, Call("world", r[1], r[2], 0))]
    /\ UNCHANGED dvars

\* The pipeline is built and no World operation is running.
Ready ==
    /\ world.line = Len(Registrations) + 1
    /\ world.plan = <<>>
    /\ ~failed

\* World::add_object(o): every integrator and every detector is told.
add_object(o) ==
    /\ Ready /\ o \notin world.objects
    /\ world' = [world EXCEPT
            !.objects = @ \cup {o},
            !.plan = ForEach(world.integrators \o world.detectors, "add", o),
            !.ran = << Call("world", "add_object", o, 0) >>]
    /\ op' = <<"add_object", o>>
    /\ calls' = <<>> /\ outPre' = <<>> /\ out' = <<>>
    /\ UNCHANGED <<body, pos, constructed, update_bf, activated, deactivated,
                   tree, asleep, pairs, failed, moved>>

\* World::remove_object(o)
remove_object(o) ==
    /\ Ready /\ o \in world.objects
    /\ world' = [world EXCEPT
            !.objects = @ \ {o},
            !.plan = ForEach(world.integrators \o world.detectors, "remove", o),
            !.ran = << Call("world", "remove_object", o, 0) >>]
    /\ op' = <<"remove_object", o>>
    /\ calls' = <<>> /\ outPre' = <<>> /\ out' = <<>>
    /\ UNCHANGED <<body, pos, constructed, update_bf, activated, deactivated,
                   tree, asleep, pairs, failed, moved>>

\* World::step(dt)
step ==
    /\ Ready
    /\ world' = [world EXCEPT
            !.plan = ForEach(world.integrators, "update", 0)
                     \o DetectorsPlan(world.detectors)
                     \o ForEach(world.solvers, "solve", 0)
                     \o ForEach(world.integrators, "update_position", 0),
            !.ran = << Call("world", "step", 0, 0) >>]
    /\ op' = <<"step">>
    /\ calls' = <<>> /\ outPre' = <<>> /\ out' = <<>>
    /\ UNCHANGED <<body, pos, constructed, update_bf, activated, deactivated,
                   tree, asleep, pairs, failed, moved>>

\* The CCD integrator, created with update_bf = true, adds o to the broad
\* phase it shares with the detector.
CcdAdd ==
    /\ Stage("ccd", "add")
    /\ OtherAdd(Head(world.plan)[3])
    /\ world' = Ran(Call("ccd", "add", Head(world.plan)[3], 1))

CcdRemove ==
    /\ Stage("ccd", "remove")
    /\ OtherRemove(Head(world.plan)[3])
    /\ world' = Ran(Call("ccd", "remove", Head(world.plan)[3], 0))

\* The CCD integrator's update(dt) refreshes the broad phase.
CcdUpdate ==
    /\ Stage("ccd", "update")
    /\ OtherUpdate
    /\ world' = Ran(Call("ccd", "update", 0, 0))

DetectorAdd ==
    /\ Stage("detector", "add")
    /\ add(Head(world.plan)[3])
    /\ world' = Ran(Call("detector", "add", Head(world.plan)[3],
                         CountTo(calls', "bf.add")))

DetectorRemove ==
    /\ Stage("detector", "remove")
    /\ remove(Head(world.plan)[3])
    /\ world' = Ran(Call("detector", "remove", Head(world.plan)[3], 0))

DetectorUpdate ==
    /\ Stage("detector", "update")
    /\ update
    /\ world' = Ran(Call("detector", "update", 0, 0))

\* The detector is handed the step's constraint list, which no joint of the
\* demo has filled.
DetectorInterferences ==
    /\ Stage("detector", "interferences")
    /\ interferences(<<>>)
    /\ world' = Ran(Call("detector", "interferences", 0, 0))

\* The bodies the integrators write: the dynamic rigid bodies of the World
\* that are awake.
Integrated(b) == b \in world.objects /\ Sleeps(b) /\ b \notin asleep

\* The Euler integrator's update(dt): v <- v + f dt / m, for any force.
IntegratorUpdate ==
    /\ Stage("integrator", "update")
    /\ \E f \in [{b \in Body : Integrated(b)} -> {-1, 0, 1}] :
         world' = [Ran(Call("integrator", "update", 0, 0)) EXCEPT
                      !.vel = [b \in Body |->
                                 IF Integrated(b) THEN f[b] ELSE world.vel[b]]]
    /\ UNCHANGED dvars

\* The Euler integrator's update_position(dt): x <- x + v dt, kept within
\* the positions of the model.
IntegratorUpdatePosition ==
    /\ Stage("integrator", "update_position")
    /\ pos' = [b \in Body |->
                 IF Integrated(b) /\ pos[b] + world.vel[b] \in Pos
                 THEN pos[b] + world.vel[b] ELSE pos[b]]
    /\ moved' = (moved \/ pos' # pos)
    /\ op' = <<"update_position">>
    /\ calls' = <<>> /\ outPre' = <<>> /\ out' = <<>>
    /\ world' = Ran(Call("integrator", "update_position", 0, 0))
    /\ UNCHANGED <<body, constructed, update_bf, activated, deactivated, tree,
                   asleep, pairs, failed>>

\* The island manager puts a body at rest to sleep.
SleepDeactivates(b) ==
    /\ Stage("sleep", "interferences")
    /\ b \in world.objects /\ b \notin asleep /\ world.vel[b] = 0
    /\ EmitBodyDeactivated(b)
    /\ world' = Ran(Call("sleep", "body_deactivated", b, 0))

\* The island manager wakes a sleeping body that a contact has reached; the
\* handlers are handed the step's constraint list.
SleepActivates(b) ==
    /\ Stage("sleep", "interferences")
    /\ b \in world.objects /\ b \in asleep
    /\ EmitBodyActivated(b, out)
    /\ world' = Ran(Call("sleep", "body_activated", b, 0))

\* A call that leaves the bodies, the broad phase and the detector as they
\* are: the ones of the force generator, the joint manager and the solver, the
\* rest of the island manager's, add and remove on the Euler integrator, and
\* update_position on the CCD integrator.
OtherCall ==
    /\ ~failed /\ world.plan # <<>>
    /\ LET e == Head(world.plan)
       IN  /\ \/ e[1] \in {"forces", "joints", "sleep", "solver"}
              \/ e[1] = "integrator" /\ e[2] \in {"add", "remove"}
              \/ e[1] = "ccd" /\ e[2] = "update_position"
           /\ world' = Ran(e)
    /\ UNCHANGED dvars

\* The user wakes a sleeping body between two operations of the World.
UserWake(b) ==
    /\ Ready
    /\ b \in world.objects /\ b \in asleep
    /\ EmitBodyActivated(b, <<>>)
    /\ world' = [world EXCEPT !.ran = << Call("user", "body_activated", b, 0) >>]

\* The user casts a ray between two operations of the World.
UserRay(x) ==
    /\ Ready
    /\ interferences_with_ray(x, <<>>)
    /\ world' = [world EXCEPT
                    !.ran = << Call("user", "interferences_with_ray", x, 0) >>]

NextWorld ==
    \/ DemoNewDetector
    \/ DemoRegister
    \/ \E o \in Body : add_object(o)
    \/ \E o \in Body : remove_object(o)
    \/ step
    \/ CcdAdd
    \/ CcdRemove
    \/ CcdUpdate
    \/ DetectorAdd
    \/ DetectorRemove
    \/ DetectorUpdate
    \/ DetectorInterferences
    \/ IntegratorUpdate
    \/ IntegratorUpdatePosition
    \/ \E b \in Body : SleepDeactivates(b)
    \/ \E b \in Body : SleepActivates(b)
    \/ OtherCall
    \/ \E b \in Body : UserWake(b)
    \/ \E x \in Pos : UserRay(x)

SpecWorld == Init /\ [][NextWorld]_vars

(***************************************************************************)
(* The dispatcher on its own: the broad phase holds every body of a world  *)
(* of arbitrary bodies, and calls the dispatcher on pairs of handles.      *)
(***************************************************************************)
InitDispatch ==
    /\ body \in [Body -> BodyValue]
    /\ pos = [b \in Body |-> InitPos(b)]
    /\ constructed = FALSE
    /\ update_bf = FALSE
    /\ activated = <<>>
    /\ deactivated = <<>>
    /\ tree = Body
    /\ asleep = {}
    /\ pairs = <<>>
    /\ op = <<"init">>
    /\ calls = <<>>
    /\ outPre = <<>>
    /\ out = <<>>
    /\ failed = FALSE
    /\ moved = TRUE
    /\ world = WorldNew

\* dispatcher.is_valid(a, b) is called; op records the result.
CallIsValid(a, b) ==
    /\ op' = <<"is_valid", a, b, is_valid(a, b)>>
    /\ UNCHANGED <<body, pos, constructed, update_bf, activated, deactivated,
                   tree, asleep, pairs, calls, outPre, out, failed, moved>>

\* dispatcher.dispatch(a, b) is called; op records the result.
CallDispatch(a, b) ==
    /\ op' = <<"dispatch", a, b, dispatch(a, b)>>
    /\ UNCHANGED <<body, pos, constructed, update_bf, activated, deactivated,
                   tree, asleep, pairs, calls, outPre, out, failed, moved>>

\* The broad phase updates its pair cache.
CallBfUpdate ==
    /\ pairs' = BfUpdate(tree, pairs)
    /\ op' = <<"bf.update">>
    /\ UNCHANGED <<body, pos, constructed, update_bf, activated, deactivated,
                   tree, asleep, calls, outPre, out, failed, moved>>

NextDispatch ==
    \/ \E a, b \in Body : CallIsValid(a, b) /\ UNCHANGED world
    \/ \E a, b \in Body : CallDispatch(a, b) /\ UNCHANGED world
    \/ CallBfUpdate /\ UNCHANGED world

SpecDispatch == InitDispatch /\ [][NextDispatch]_vars

(***************************************************************************)
(* Properties of the dispatcher (checked under SpecDispatch).              *)
(***************************************************************************)
Rigid(b)  == body[b].tag = "RB"
Static(b) == ~body[b].can_move

\* C1: is_valid(a, b) on two distinct handles that are both rigid bodies is
\* true exactly when at least one of the two can move; so the pair cache the
\* broad phase builds with it never holds a pair of two static rigid bodies,
\* and no detector exists for such a pair.
C1_IsValidRigidPair ==
    /\ \A a, b \in Body :
         (/\ op[1] = "is_valid" /\ op[2] = a /\ op[3] = b
          /\ a # b /\ Rigid(a) /\ Rigid(b))
         => (op[4] <=> (body[a].can_move \/ body[b].can_move))
    /\ \A k \in DOMAIN pairs :
         ~(Rigid(k[1]) /\ Rigid(k[2]) /\ Static(k[1]) /\ Static(k[2]))

\* is_valid has been called on two distinct static rigid bodies whose fat
\* boxes overlap, and has rejected the pair.
C1_Witness ==
    /\ op[1] = "is_valid" /\ op[2] # op[3]
    /\ Rigid(op[2]) /\ Rigid(op[3]) /\ Static(op[2]) /\ Static(op[3])
    /\ Overlap(op[2], op[3])
    /\ op[4] = FALSE

\* C2: is_valid(a, a) is false for every body kind and mobility; so the pair
\* cache never pairs a body with itself.
C2_IsValidSameHandle ==
    /\ \A a \in Body :
         (op[1] = "is_valid" /\ op[2] = a /\ op[3] = a) => op[4] = FALSE
    /\ \A k \in DOMAIN pairs : k[1] # k[2]

\* is_valid has been called on a soft body that can move and itself.
C2_Witness ==
    /\ op[1] = "is_valid" /\ op[2] = op[3]
    /\ body[op[2]] = SB(TRUE)
    /\ op[4] = FALSE

\* C3: dispatch(a, b) is a GG detector exactly when a and b are both rigid,
\* and the Unsuported marker for every pair with a soft body in it; the pair
\* cache built with it holds the same.
C3_DispatchByKind ==
    /\ \A a, b \in Body :
         (op[1] = "dispatch" /\ op[2] = a /\ op[3] = b)
         => /\ op[4].tag \in {"GG", "Unsuported"}
            /\ op[4].tag = "GG" <=> (Rigid(a) /\ Rigid(b))
            /\ (~Rigid(a) \/ ~Rigid(b)) => op[4] = Unsuported
    /\ \A k \in DOMAIN pairs :
         pairs[k].tag = "GG" <=> (Rigid(k[1]) /\ Rigid(k[2]))

\* dispatch has been called on a rigid body and a soft body, in this order.
C3_Witness ==
    /\ op[1] = "dispatch"
    /\ Rigid(op[2]) /\ ~Rigid(op[3])
    /\ op[4] = Unsuported

(***************************************************************************)
(* Properties of the detector (checked under Spec).                        *)
(***************************************************************************)
\* What the last operation appended to its output list.
Emitted == SubSeq(out, Len(outPre) + 1, Len(out))

GGPairs == {k \in DOMAIN pairs : pairs[k].tag = "GG"}
UnsupportedPairs == {k \in DOMAIN pairs : pairs[k].tag = "Unsuported"}

\* C4: update_bf gates the broad-phase maintenance calls of the detector.
\* With update_bf, add(o), remove(o) and update() make exactly one call,
\* broad_phase.add(o), broad_phase.remove(o), broad_phase.update(); without
\* it they make none of the three, and leave the broad phase's body set (and,
\* for add and update, its set of pairs) as it was.
C4_UpdateBfGates ==
    [][ LET n == IF update_bf THEN 1 ELSE 0
            maintenance(cs) == CountTo(cs, "bf.add") + CountTo(cs, "bf.remove")
                               + CountTo(cs, "bf.update")
        IN  /\ op'[1] = "add" =>
                 /\ Count(calls', <<"bf.add", op'[2]>>) = n
                 /\ maintenance(calls') = n
                 /\ tree' = IF update_bf THEN tree \cup {op'[2]} ELSE tree
                 /\ DOMAIN pairs' = DOMAIN pairs
            /\ op'[1] = "remove" =>
                 /\ Count(calls', <<"bf.remove", op'[2]>>) = n
                 /\ maintenance(calls') = n
                 /\ tree' = IF update_bf THEN tree \ {op'[2]} ELSE tree
                 /\ ~update_bf => DOMAIN pairs' = DOMAIN pairs
            /\ op'[1] = "update" =>
                 /\ Count(calls', <<"bf.update">>) = n
                 /\ maintenance(calls') = n
                 /\ tree' = tree
                 /\ ~update_bf => DOMAIN pairs' = DOMAIN pairs
      ]_vars

\* Without update_bf, the detector's remove(o) has been called for a body the
\* broad phase holds, and the broad phase still holds it.
C4_Witness ==
    /\ ~update_bf
    /\ op[1] = "remove" /\ op[2] \in tree
    /\ calls = <<>>

\* C5: update() calls the narrow-phase update exactly once, with the two
\* bodies' current transforms, for every GG pair of the pair cache, with and
\* without update_bf; with update_bf, broad_phase.update() is its first call,
\* made once, before any pair is visited.
C5_UpdateVisitsEveryGG ==
    op[1] = "update" =>
        /\ \A k \in GGPairs :
             /\ Count(calls, <<"d.update", k[1], k[2], pos[k[1]], pos[k[2]]>>) = 1
             /\ pairs[k] = GG(pos[k[1]], pos[k[2]])
        /\ CountTo(calls, "d.update") = Cardinality(GGPairs)
        /\ update_bf =>
             /\ calls[1] = <<"bf.update">>
             /\ Count(calls, <<"bf.update">>) = 1
        /\ ~update_bf => Count(calls, <<"bf.update">>) = 0

\* update() has run with update_bf on a cache of two GG pairs, one of them
\* in contact.
C5_Witness ==
    /\ op[1] = "update" /\ update_bf
    /\ Cardinality(GGPairs) = 2
    /\ CountTo(calls, "d.update") = 2
    /\ \E k \in GGPairs : Colls(pairs[k]) # <<>>

\* The emitted constraints are exactly the contacts the GG pairs of the set
\* S hold, each once, under the pair's own bodies.
EmitsContactsOf(S) ==
    /\ \A k \in S : \A i \in DOMAIN Colls(pairs[k]) :
         Count(Emitted, RBRB(k[1], k[2], Colls(pairs[k])[i])) = 1
    /\ \A i \in DOMAIN Emitted :
         \E k \in S : \E j \in DOMAIN Colls(pairs[k]) :
             Emitted[i] = RBRB(k[1], k[2], Colls(pairs[k])[j])

PairsOf(b) == {k \in DOMAIN pairs : k[1] = b \/ k[2] = b}

\* C7: when body_activated is emitted for b, the detector calls
\* broad_phase.activate(b) once, and appends one RBRB(b1, b2, contact) for
\* each contact of each re-emitted GG pair; unsupported pairs add nothing.
C7_ActivationEmits ==
    op[1] = "body_activated" =>
        /\ Count(calls, <<"bf.activate", op[2]>>) = 1
        /\ CountTo(calls, "bf.activate") = 1
        /\ EmitsContactsOf(PairsOf(op[2]) \cap GGPairs)
        /\ \A k \in PairsOf(op[2]) \cap UnsupportedPairs :
             \A i \in DOMAIN Emitted :
                 ~(Emitted[i][2] = k[1] /\ Emitted[i][3] = k[2])

\* body_activated has been emitted for a body with an unsupported pair and a
\* GG pair of two contacts.
C7_Witness ==
    /\ op[1] = "body_activated"
    /\ PairsOf(op[2]) \cap UnsupportedPairs # {}
    /\ \E k \in PairsOf(op[2]) \cap GGPairs : Len(Colls(pairs[k])) = 2
    /\ Len(Emitted) >= 2

\* C8: new subscribes the detector to body_activated and to body_deactivated
\* once each, under the same subscriber id; every body_deactivated emission
\* for b then makes exactly one call, broad_phase.deactivate(b), with and
\* without update_bf, and emits no constraint.
C8_DeactivationCalls ==
    /\ constructed =>
         /\ Len(activated) = 1 /\ Len(deactivated) = 1
         /\ activated[1].f = "activate" /\ deactivated[1].f = "deactivate"
         /\ activated[1].id = deactivated[1].id
    /\ op[1] = "body_deactivated" =>
         /\ calls = << <<"bf.deactivate", op[2]>> >>
         /\ op[2] \in asleep
         /\ out = <<>>

\* body_deactivated has been emitted for a body, the detector created without
\* update_bf.
C8_Witness ==
    /\ op[1] = "body_deactivated"
    /\ ~update_bf
    /\ op[2] \in asleep

\* The broad-phase ray query at x returns b.
RayReturns(b, x) == b \in tree /\ Abs(pos[b] - x) <= 2

\* C9 as claimed: interferences_with_ray(ray, out) appends exactly one
\* (body, t) for each rigid body the broad-phase ray query returns whose shape
\* the ray hits at t, and nothing for a returned body whose shape it misses.
C9_RayEntries ==
    op[1] = "interferences_with_ray" =>
        \A b \in Body :
            IF RayReturns(b, op[2]) /\ Rigid(b) /\ Toi(b, op[2]) # -1
            THEN /\ Count(Emitted, <<b, Toi(b, op[2])>>) = 1
                 /\ Cardinality({i \in DOMAIN Emitted : Emitted[i][1] = b}) = 1
            ELSE \A i \in DOMAIN Emitted : Emitted[i][1] # b

\* C10: an unsupported pair is skipped by update(), interferences(out) and the
\* activation handler: no narrow-phase call is made for it, no constraint is
\* appended for it, nothing fails, and the GG pairs (the ones after it too)
\* are visited.
C10_UnsupportedSkipped ==
    op[1] \in {"update", "interferences", "body_activated"} =>
        LET visited == IF op[1] = "body_activated"
                       THEN PairsOf(op[2]) ELSE DOMAIN pairs
            pairCalls(f, k) ==
                Cardinality({i \in DOMAIN calls :
                    /\ calls[i][1] = f
                    /\ calls[i][2] = k[1] /\ calls[i][3] = k[2]})
        IN  /\ ~failed
            /\ \A k \in visited \cap UnsupportedPairs :
                 /\ pairCalls("d.update", k) = 0
                 /\ pairCalls("d.colls", k) = 0
                 /\ \A i \in DOMAIN Emitted :
                      ~(Emitted[i][2] = k[1] /\ Emitted[i][3] = k[2])
            /\ \A k \in visited \cap GGPairs :
                 /\ op[1] # "interferences" => pairCalls("d.update", k) = 1
                 /\ op[1] # "update" => pairCalls("d.colls", k) = 1

\* interferences(out) has visited an unsupported pair and, after it, a GG
\* pair whose contact it has emitted.
C10_Witness ==
    /\ op[1] = "interferences"
    /\ \E k \in UnsupportedPairs : \E l \in GGPairs :
         /\ KeyLess(k, l)
         /\ <<"d.colls", l[1], l[2]>> \in {calls[i] : i \in DOMAIN calls}
         /\ \E i \in DOMAIN Emitted : Emitted[i][2] = l[1] /\ Emitted[i][3] = l[2]

\* C11 as claimed: no operation of the detector aborts on an unsupported body
\* kind: when the broad-phase ray query returns a soft body,
\* interferences_with_ray adds no entry for it and goes on with the remaining
\* candidates, so that each returned rigid body the ray hits has its entry.
C11_RayNeverFails ==
    /\ ~failed
    /\ op[1] = "interferences_with_ray" =>
         \A b \in Body :
            /\ (RayReturns(b, op[2]) /\ ~Rigid(b)) =>
                  \A i \in DOMAIN Emitted : Emitted[i][1] # b
            /\ (RayReturns(b, op[2]) /\ Rigid(b) /\ Toi(b, op[2]) # -1) =>
                  \E i \in DOMAIN Emitted : Emitted[i] = <<b, Toi(b, op[2])>>

\* C12 as claimed: the dispatcher filters duplicate pairs as it filters self
\* pairs: of the two orderings (a, b) and (b, a) of two bodies of the broad
\* phase it accepts at most one, and the pair cache holds no pair of a body
\* with itself.
C12_DispatcherFiltersDuplicates ==
    /\ \A a, b \in tree : a # b => ~(is_valid(a, b) /\ is_valid(b, a))
    /\ \A k \in DOMAIN pairs : k[1] # k[2]

\* C12, amended: the dispatcher rejects the pair of a body with itself and
\* answers alike on (a, b) and (b, a), accepting both orderings of a valid
\* pair; the pair cache, keyed by the unordered pair, holds no pair of a body
\* with itself and no pair under both orderings, and no contact is emitted
\* twice by one call, under either ordering of its bodies.
C12_PairCacheUnique ==
    /\ \A a, b \in Body : is_valid(a, b) = is_valid(b, a)
    /\ \A k \in DOMAIN pairs :
         /\ k[1] # k[2]
         /\ <<k[2], k[1]>> \notin DOMAIN pairs
    /\ op[1] \in {"interferences", "body_activated"} =>
         \A i, j \in DOMAIN Emitted :
            (/\ i # j
             /\ {Emitted[i][2], Emitted[i][3]} = {Emitted[j][2], Emitted[j][3]})
            => Emitted[i][4] # Emitted[j][4]

\* The pair cache holds three pairs, two of them sharing a body, and
\* interferences(out) has emitted the two contacts of one of them.
C12_Witness ==
    /\ op[1] = "interferences"
    /\ Cardinality(DOMAIN pairs) >= 3
    /\ \E k \in DOMAIN pairs : is_valid(k[1], k[2]) /\ is_valid(k[2], k[1])
    /\ \E i, j \in DOMAIN Emitted :
         /\ i # j
         /\ Emitted[i][2] = Emitted[j][2] /\ Emitted[i][3] = Emitted[j][3]

(***************************************************************************)
(* Properties of the demo's pipeline (checked under SpecWorld).            *)
(***************************************************************************)
\* The World operation that is running, or the last one that ran, is op.
WorldOp(o) ==
    world.ran # <<>> /\ world.ran[1][1] = "world" /\ world.ran[1][2] = o

\* The places of the calls on component c among the calls made.
RanOn(c) == {i \in DOMAIN world.ran : world.ran[i][1] = c}

\* C13: BodiesBodies::priority is 50, the joint manager's priority, and below
\* the island manager's; the World's detectors, sorted by priority with ties
\* in registration order, are the bodies-bodies detector, then the joint
\* manager, then the island manager, and in every step each call on the
\* bodies-bodies detector is made before every call on the other two.
C13_DetectorRunsFirst ==
    /\ priority = 50
    /\ Priority("detector") = Priority("joints")
    /\ Priority("detector") < Priority("sleep")
    /\ world.line >= 7 => world.detectors = <<"detector", "joints", "sleep">>
    /\ WorldOp("step") =>
         /\ \A i \in RanOn("detector") :
              \A j \in RanOn("joints") \cup RanOn("sleep") : i < j
         /\ world.plan = <<>> =>
              \E i, j \in RanOn("detector") :
                 /\ world.ran[i][2] = "update"
                 /\ world.ran[j][2] = "interferences"
                 /\ i < j

\* A step has called the bodies-bodies detector, which has emitted a contact,
\* then the joint manager and the island manager.
C13_Witness ==
    /\ WorldOp("step")
    /\ RanOn("detector") # {} /\ RanOn("joints") # {} /\ RanOn("sleep") # {}
    /\ Len(out) >= 1

\* The call e is one on the bodies-bodies detector: by the World, by the
\* signal bus (its activation and deactivation handlers), or by the user.
IsDetectorCall(e) ==
    \/ e[1] = "detector"
    \/ e[2] \in {"body_activated", "body_deactivated", "interferences_with_ray"}

\* C14: a call on the bodies-bodies detector (new, add, remove, update,
\* interferences, the activation and deactivation handlers,
\* interferences_with_ray) leaves the kind, the pose and the velocity of every
\* body as they were; a Static body is at its initial pose with zero velocity
\* before and after it.
C14_DetectorLeavesBodies ==
    [][ (world'.ran # <<>> /\ IsDetectorCall(Last(world'.ran))) =>
            /\ body' = body
            /\ pos' = pos
            /\ world'.vel = world.vel
            /\ \A b \in Body : Static(b) =>
                 /\ pos[b] = InitPos(b) /\ pos'[b] = InitPos(b)
                 /\ world.vel[b] = 0 /\ world'.vel[b] = 0
      ]_vars

\* The detector's update() has been called in a step, on a dynamic body that
\* has left its initial pose and has a velocity, in contact with a Static body.
C14_Witness ==
    /\ world.ran # <<>> /\ Last(world.ran) = Call("detector", "update", 0, 0)
    /\ \E b \in tree : Sleeps(b) /\ pos[b] # InitPos(b) /\ world.vel[b] # 0
    /\ \E k \in GGPairs : Static(k[2]) /\ Colls(pairs[k]) # <<>>

(***************************************************************************)
(* The update on the activation path (checked under Spec).                 *)
(***************************************************************************)
\* The place of the call c in the call list cs, 0 if it is not there.
PlaceOf(cs, c) ==
    IF \E i \in DOMAIN cs : cs[i] = c
    THEN CHOOSE i \in DOMAIN cs : cs[i] = c
    ELSE 0

\* What the activation handler would emit for b without its d.update: the
\* contacts the pairs of b hold as they are.
WithoutUpdate(b) ==
    InterferencesEach(BfActivatePairs(pairs, b), pairs, <<>>).out

\* The activation handler has updated each GG pair of b from the two bodies'
\* current transforms before reading its contacts.
UpdatedBeforeRead(b) ==
    \A k \in PairsOf(b) \cap GGPairs :
        LET u == PlaceOf(calls, <<"d.update", k[1], k[2], pos[k[1]], pos[k[2]]>>)
            c == PlaceOf(calls, <<"d.colls", k[1], k[2]>>)
        IN  0 < u /\ u < c

\* C15 as claimed: on activation each re-emitted GG pair is updated from the
\* current transforms before its contacts are read, and the update is
\* redundant: if nothing moved since the last update(), the handler emits
\* what it would emit without it.
C15_UpdateRedundant ==
    [][ \A b \in Body : op' = <<"body_activated", b>> =>
            /\ UpdatedBeforeRead(b)'
            /\ ~moved => Emitted' = WithoutUpdate(b)
      ]_vars

\* C15, amended: the update is redundant for the pairs that were in the pair
\* cache at the last update(): if nothing moved since and every re-emitted GG
\* pair has been updated before, the handler emits what it would emit without
\* the update.  For a re-emitted pair that entered the pair cache since and
\* holds contacts at the current transforms, the update is the pair's first
\* and the handler emits contacts it would not emit without it.
C15_UpdateRedundantForUpdatedPairs ==
    [][ \A b \in Body : op' = <<"body_activated", b>> =>
            LET fresh == {k \in PairsOf(b) \cap GGPairs : pairs[k].ta = -1}
            IN  /\ UpdatedBeforeRead(b)'
                /\ (~moved /\ fresh = {}) => Emitted' = WithoutUpdate(b)
                /\ (\E k \in fresh : Colls(pairs'[k]) # <<>>)
                      => Emitted' # WithoutUpdate(b)
      ]_vars

\* body_activated has been emitted, with nothing moved since the last
\* update(), for a body with two GG pairs holding contacts, which the handler
\* has updated and emitted.
C15_Witness ==
    /\ op[1] = "body_activated"
    /\ ~moved
    /\ Cardinality({k \in PairsOf(op[2]) \cap GGPairs : Colls(pairs[k]) # <<>>}) >= 2
    /\ CountTo(calls, "d.update") >= 2
    /\ Len(Emitted) >= 2

(***************************************************************************)
(* The constraints the detector emits (checked under Spec).                *)
(***************************************************************************)
RECURSIVE SumColls(_)
\* The number of contacts the pairs of S hold.
SumColls(S) ==
    IF S = {} THEN 0
    ELSE LET k == CHOOSE l \in S : TRUE
         IN  Len(Colls(pairs[k])) + SumColls(S \ {k})

\* The places of the appended constraints that carry the bodies of pair k.
EmittedFor(k) ==
    {i \in DOMAIN Emitted : Emitted[i][2] = k[1] /\ Emitted[i][3] = k[2]}

\* C16: every constraint appended by interferences(out) or by the activation
\* handler is an RBRB of a visited GG pair with a contact of that pair's own
\* narrow-phase state; a pair gets as many constraints as it holds contacts,
\* none of another pair's, and the call appends as many constraints as the
\* visited GG pairs hold contacts in all.
C16_ContactsOfOwnPair ==
    op[1] \in {"interferences", "body_activated"} =>
        LET visited == (IF op[1] = "body_activated"
                        THEN PairsOf(op[2]) ELSE DOMAIN pairs) \cap GGPairs
        IN  /\ \A i \in DOMAIN Emitted :
                 /\ Emitted[i][1] = "RBRB"
                 /\ \E k \in visited : i \in EmittedFor(k)
            /\ \A k \in visited :
                 /\ Cardinality(EmittedFor(k)) = Len(Colls(pairs[k]))
                 /\ \A i \in EmittedFor(k) :
                      \E j \in DOMAIN Colls(pairs[k]) :
                          Emitted[i][4] = Colls(pairs[k])[j]
            /\ Len(Emitted) = SumColls(visited)

\* interferences(out) has visited two GG pairs that both hold contacts.
C16_Witness ==
    /\ op[1] = "interferences"
    /\ \E k, l \in GGPairs :
         /\ KeyLess(k, l)
         /\ Len(Colls(pairs[k])) >= 1
         /\ Len(Colls(pairs[l])) >= 1
         /\ Len(Emitted) >= 2

RECURSIVE BfAdds(_)
\* The number of broad_phase.add calls the calls of q made.
BfAdds(q) == IF q = <<>> THEN 0 ELSE Head(q)[4] + BfAdds(Tail(q))

\* C18: in the demo the detector is created with update_bf = false and the
\* CCD integrator drives the broad phase they share: add_object(o) inserts o
\* into it at most once while it runs and exactly once, by the CCD
\* integrator, when it is done; in every step the detector's update() comes
\* after the CCD integrator's, and the pair cache it iterates is the one a
\* broad-phase update at the bodies' current positions gives.
C18_OneDriver ==
    /\ constructed => ~update_bf
    /\ WorldOp("add_object") =>
         /\ BfAdds(world.ran) <= 1
         /\ world.plan = <<>> =>
              /\ BfAdds(world.ran) = 1
              /\ world.ran[1][3] \in tree
              /\ \A i \in DOMAIN world.ran :
                   world.ran[i][4] = 1 => world.ran[i][1] = "ccd"
    /\ WorldOp("step") =>
         \A i \in RanOn("detector") :
            world.ran[i][2] = "update" =>
                \E j \in RanOn("ccd") : j < i /\ world.ran[j][2] = "update"
    /\ (WorldOp("step") /\ Last(world.ran) = Call("detector", "update", 0, 0)) =>
         /\ DOMAIN pairs = DOMAIN BfUpdate(tree, pairs)
         /\ \A k \in GGPairs : pairs[k] = GG(pos[k[1]], pos[k[2]])
    /\ Ready => tree = world.objects

\* Bodies have been added to the World, a dynamic one has moved into contact
\* with a Static one, and in the step that followed the detector's update()
\* has updated their pair, which the CCD integrator's update had put in the
\* pair cache.
C18_Witness ==
    /\ WorldOp("step")
    /\ Last(world.ran) = Call("detector", "update", 0, 0)
    /\ Cardinality(tree) >= 3
    /\ \E k \in GGPairs : pos[k[1]] # InitPos(k[1]) /\ Colls(pairs[k]) # <<>>
    /\ CountTo(calls, "bf.update") = 0

=============================================================================
